---------------------------- MODULE Spec2Model ----------------------------
(***************************************************************************)
(* The profile parser of crates/witx2/src/ast/profile.rs: Ast::parse, the  *)
(* driver loop, Docs::parse, Item::parse, Id::parse and the four           *)
(* declaration parsers, over the tokenizer lex::Tokenizer<Token>.          *)
(*                                                                         *)
(* The source buffer is a sequence of one-character strings; a byte offset *)
(* o names the character input[o + 1].  A tokenizer is its cursor, a byte  *)
(* offset into the buffer; cloning a tokenizer copies the offset.          *)
(***************************************************************************)
EXTENDS Integers, Sequences, FiniteSets, TLC

VARIABLES input, lexer, pc, docs, peeked, items, result, entry, mark

vars == <<input, lexer, pc, docs, peeked, items, result, entry, mark>>

(***************************************************************************)
(* Characters and lexemes.                                                 *)
(***************************************************************************)
Letters ==
    {"a", "b", "c", "d", "e", "f", "g", "h", "i", "j", "k", "l", "m",
     "n", "o", "p", "q", "r", "s", "t", "u", "v", "w", "x", "y", "z"}

WhitespaceChars == {" ", "\n", "\t"}

Quote == "\""

Backslash == "\\"

EscapeChars == {Quote, Backslash, "n"}

KwExtend == <<"e", "x", "t", "e", "n", "d">>

KwProvide == <<"p", "r", "o", "v", "i", "d", "e">>

KwRequire == <<"r", "e", "q", "u", "i", "r", "e">>

KwImplement == <<"i", "m", "p", "l", "e", "m", "e", "n", "t">>

KwWith == <<"w", "i", "t", "h">>

(***************************************************************************)
(* lex::Span                                                               *)
(***************************************************************************)
Span(s, e) == [start |-> s, end |-> e]

InputLen == Len(input)

CharAt(o) == input[o + 1]

\* Tokenizer::get_span: the verbatim slice of the buffer
get_span(span) == SubSeq(input, span.start + 1, span.end)

(***************************************************************************)
(* lex::Tokenizer::next_raw and its scanning loops.  A result is           *)
(*   [tag |-> "tok", span, token, pos]  a token, cursor moved to pos       *)
(*   [tag |-> "eof", pos]               end of input                       *)
(*   [tag |-> "err", error, pos]        a lexical error                    *)
(***************************************************************************)
RECURSIVE EatWhile(_, _)
EatWhile(o, S) ==
    IF o < InputLen /\ CharAt(o) \in S THEN EatWhile(o + 1, S) ELSE o

RECURSIVE EatLine(_)
EatLine(o) ==
    IF o < InputLen /\ CharAt(o) /= "\n" THEN EatLine(o + 1) ELSE o

LexError(span, msg) == [kind |-> "lex", span |-> span, expected |-> msg, found |-> "char"]

\* scanning the body of a string literal that opened at offset s
RECURSIVE EatString(_, _)
EatString(s, o) ==
    IF o >= InputLen
    THEN [tag |-> "err", error |-> LexError(Span(s, InputLen), "unterminated string literal"),
          pos |-> InputLen]
    ELSE IF CharAt(o) = Quote
    THEN [tag |-> "tok", span |-> Span(s, o + 1), token |-> "StrLit", pos |-> o + 1]
    ELSE IF CharAt(o) = Backslash
    THEN IF o + 1 >= InputLen
         THEN [tag |-> "err",
               error |-> LexError(Span(s, InputLen), "unterminated string literal"),
               pos |-> InputLen]
         ELSE IF CharAt(o + 1) \in EscapeChars
         THEN EatString(s, o + 2)
         ELSE [tag |-> "err",
               error |-> LexError(Span(o, o + 2), "invalid escape sequence"),
               pos |-> o + 2]
    ELSE EatString(s, o + 1)

Keyword(text) ==
    IF text = KwExtend THEN "Extend"
    ELSE IF text = KwProvide THEN "Provide"
    ELSE IF text = KwRequire THEN "Require"
    ELSE IF text = KwImplement THEN "Implement"
    ELSE IF text = KwWith THEN "With"
    ELSE "Id"

next_raw(pos) ==
    IF pos >= InputLen
    THEN [tag |-> "eof", pos |-> pos]
    ELSE LET ch == CharAt(pos) IN
         IF ch \in WhitespaceChars
         THEN LET e == EatWhile(pos + 1, WhitespaceChars) IN
              [tag |-> "tok", span |-> Span(pos, e), token |-> "Whitespace", pos |-> e]
         ELSE IF ch = "/"
         THEN IF pos + 1 < InputLen /\ CharAt(pos + 1) = "/"
              THEN LET e == EatLine(pos + 2) IN
                   [tag |-> "tok", span |-> Span(pos, e), token |-> "Comment", pos |-> e]
              ELSE [tag |-> "err",
                    error |-> LexError(Span(pos, pos + 1), "unrecognized character"),
                    pos |-> pos + 1]
         ELSE IF ch = Quote
         THEN EatString(pos, pos + 1)
         ELSE IF ch \in Letters
         THEN LET e == EatWhile(pos + 1, Letters) IN
              [tag |-> "tok", span |-> Span(pos, e),
               token |-> Keyword(SubSeq(input, pos + 1, e)), pos |-> e]
         ELSE [tag |-> "err",
               error |-> LexError(Span(pos, pos + 1), "unrecognized character"),
               pos |-> pos + 1]

\* Tokenizer::next: the filtered next, skipping whitespace and comments
RECURSIVE next(_)
next(pos) ==
    LET r == next_raw(pos) IN
    IF r.tag = "tok" /\ r.token \in {"Whitespace", "Comment"}
    THEN next(r.pos)
    ELSE r

\* Tokenizer::parse_str: the text of a string literal, quotes removed and
\* escape sequences resolved
Unescape(c) == IF c = "n" THEN "\n" ELSE c

RECURSIVE DecodeFrom(_, _)
DecodeFrom(o, e) ==
    IF o >= e THEN <<>>
    ELSE IF CharAt(o) = Backslash /\ o + 1 < e
    THEN <<Unescape(CharAt(o + 1))>> \o DecodeFrom(o + 2, e)
    ELSE <<CharAt(o)>> \o DecodeFrom(o + 1, e)

parse_str(span) == DecodeFrom(span.start + 1, span.end - 1)

\* Tokenizer::format_expected_error: "expected <expected>, found <token or eof>"
\* with the span of the token found, or the end-of-input span
format_expected_error(expected, found) ==
    IF found.tag = "tok"
    THEN [kind |-> "expected", span |-> found.span, expected |-> expected,
          found |-> found.token]
    ELSE [kind |-> "expected", span |-> Span(InputLen, InputLen), expected |-> expected,
          found |-> "eof"]

Describe(token) ==
    CASE token = "Extend" -> "keyword 'extend'"
      [] token = "Provide" -> "keyword 'provide'"
      [] token = "Require" -> "keyword 'require'"
      [] token = "Implement" -> "keyword 'implement'"
      [] token = "With" -> "keyword 'with'"
      [] token = "StrLit" -> "a string literal"
      [] OTHER -> token

\* Tokenizer::expect: the next filtered token must be the expected one
expect(pos, expected) ==
    LET r == next(pos) IN
    IF r.tag = "err" THEN r
    ELSE IF r.tag = "tok" /\ r.token = expected
    THEN [tag |-> "ok", span |-> r.span, pos |-> r.pos]
    ELSE [tag |-> "err", error |-> format_expected_error(Describe(expected), r),
          pos |-> r.pos]

(***************************************************************************)
(* Id::parse                                                               *)
(***************************************************************************)
\* an Id::parse that takes the slice of a string literal as its name
IdParseVerbatim(pos) ==
    LET r == next(pos) IN
    IF r.tag = "err" THEN r
    ELSE IF r.tag = "tok" /\ r.token \in {"Id", "StrLit"}
    THEN [tag |-> "ok", value |-> [name |-> get_span(r.span), span |-> r.span],
          pos |-> r.pos]
    ELSE [tag |-> "err", error |-> format_expected_error("an identifier or string", r),
          pos |-> r.pos]

IdParse(pos) ==
    LET r == next(pos) IN
    IF r.tag = "err" THEN r
    ELSE IF r.tag = "tok" /\ r.token = "Id"
    THEN [tag |-> "ok", value |-> [name |-> get_span(r.span), span |-> r.span],
          pos |-> r.pos]
    ELSE IF r.tag = "tok" /\ r.token = "StrLit"
    THEN [tag |-> "ok", value |-> [name |-> parse_str(r.span), span |-> r.span],
          pos |-> r.pos]
    ELSE [tag |-> "err", error |-> format_expected_error("an identifier or string", r),
          pos |-> r.pos]

(***************************************************************************)
(* Docs::parse: the scan runs on a clone; the caller's tokenizer is        *)
(* assigned the clone at the end of every iteration that did not break.    *)
(***************************************************************************)
RECURSIVE DocsLoop(_, _, _)
DocsLoop(clone, tokens, acc) ==
    LET r == next_raw(clone) IN
    IF r.tag = "err" THEN [tag |-> "err", error |-> r.error, pos |-> tokens]
    ELSE IF r.tag = "eof" THEN [tag |-> "ok", docs |-> acc, pos |-> tokens]
    ELSE IF r.token = "Whitespace" THEN DocsLoop(r.pos, r.pos, acc)
    ELSE IF r.token = "Comment" THEN DocsLoop(r.pos, r.pos, Append(acc, get_span(r.span)))
    ELSE [tag |-> "ok", docs |-> acc, pos |-> tokens]

\* a collector that commits the cursor after comments only
RECURSIVE DocsLoopCommitComments(_, _, _)
DocsLoopCommitComments(clone, tokens, acc) ==
    LET r == next_raw(clone) IN
    IF r.tag = "err" THEN [tag |-> "err", error |-> r.error, pos |-> tokens]
    ELSE IF r.tag = "eof" THEN [tag |-> "ok", docs |-> acc, pos |-> tokens]
    ELSE IF r.token = "Whitespace" THEN DocsLoopCommitComments(r.pos, tokens, acc)
    ELSE IF r.token = "Comment"
    THEN DocsLoopCommitComments(r.pos, r.pos, Append(acc, get_span(r.span)))
    ELSE [tag |-> "ok", docs |-> acc, pos |-> tokens]

DocsParseCommitComments(pos) == DocsLoopCommitComments(pos, pos, <<>>)

\* a collector that commits the cursor before it looks at the token
DocsParseConsumesStop(pos) ==
    LET r == DocsLoop(pos, pos, <<>>)
        stop == next_raw(r.pos)
    IN  IF r.tag = "ok" /\ stop.tag = "tok" THEN [r EXCEPT !.pos = stop.pos] ELSE r

\* a collector that starts the run afresh at every comment
DocsParseLastOnly(pos) ==
    LET r == DocsLoop(pos, pos, <<>>) IN
    IF r.tag = "ok" /\ Len(r.docs) > 1
    THEN [r EXCEPT !.docs = <<r.docs[Len(r.docs)]>>]
    ELSE r

DocsParse(pos) == DocsLoop(pos, pos, <<>>)

(***************************************************************************)
(* Extend::parse, Provide::parse, Require::parse, Implement::parse         *)
(***************************************************************************)
\* an Extend whose span stays the keyword's span
ExtendParseKeywordSpan(pos) ==
    LET k == expect(pos, "Extend") IN
    IF k.tag = "err" THEN k
    ELSE LET profile == IdParse(k.pos) IN
         IF profile.tag = "err" THEN profile
         ELSE [tag |-> "ok",
               value |-> [kind |-> "Extend", span |-> k.span, profile |-> profile.value],
               pos |-> profile.pos]

ExtendParse(pos) ==
    LET k == expect(pos, "Extend") IN
    IF k.tag = "err" THEN k
    ELSE LET profile == IdParse(k.pos) IN
         IF profile.tag = "err" THEN profile
         ELSE [tag |-> "ok",
               value |-> [kind |-> "Extend",
                          span |-> Span(k.span.start, profile.value.span.end),
                          profile |-> profile.value],
               pos |-> profile.pos]

ProvideParse(pos, d) ==
    LET k == expect(pos, "Provide") IN
    IF k.tag = "err" THEN k
    ELSE LET interface == IdParse(k.pos) IN
         IF interface.tag = "err" THEN interface
         ELSE [tag |-> "ok",
               value |-> [kind |-> "Provide", docs |-> d,
                          span |-> Span(k.span.start, interface.value.span.end),
                          interface |-> interface.value],
               pos |-> interface.pos]

RequireParse(pos, d) ==
    LET k == expect(pos, "Require") IN
    IF k.tag = "err" THEN k
    ELSE LET interface == IdParse(k.pos) IN
         IF interface.tag = "err" THEN interface
         ELSE [tag |-> "ok",
               value |-> [kind |-> "Require", docs |-> d,
                          span |-> Span(k.span.start, interface.value.span.end),
                          interface |-> interface.value],
               pos |-> interface.pos]

\* an Implement that goes on without the keyword with
ImplementParseOptionalWith(pos, d) ==
    LET k == expect(pos, "Implement") IN
    IF k.tag = "err" THEN k
    ELSE LET interface == expect(k.pos, "StrLit") IN
         IF interface.tag = "err" THEN interface
         ELSE LET w == expect(interface.pos, "With")
                  after == IF w.tag = "err" THEN interface.pos ELSE w.pos
                  component == expect(after, "StrLit")
              IN  IF component.tag = "err" THEN component
                  ELSE [tag |-> "ok",
                        value |-> [kind |-> "Implement", docs |-> d,
                                   span |-> Span(k.span.start, component.span.end),
                                   interface |-> parse_str(interface.span),
                                   component |-> parse_str(component.span)],
                        pos |-> component.pos]

\* an Implement whose operands are read as Provide reads its operand
ImplementParseLenient(pos, d) ==
    LET k == expect(pos, "Implement") IN
    IF k.tag = "err" THEN k
    ELSE LET interface == IdParse(k.pos) IN
         IF interface.tag = "err" THEN interface
         ELSE LET w == expect(interface.pos, "With") IN
              IF w.tag = "err" THEN w
              ELSE LET component == IdParse(w.pos) IN
                   IF component.tag = "err" THEN component
                   ELSE [tag |-> "ok",
                         value |-> [kind |-> "Implement", docs |-> d,
                                    span |-> Span(k.span.start, component.value.span.end),
                                    interface |-> interface.value.name,
                                    component |-> component.value.name],
                         pos |-> component.pos]

ImplementParse(pos, d) ==
    LET k == expect(pos, "Implement") IN
    IF k.tag = "err" THEN k
    ELSE LET interface == expect(k.pos, "StrLit") IN
         IF interface.tag = "err" THEN interface
         ELSE LET w == expect(interface.pos, "With") IN
              IF w.tag = "err" THEN w
              ELSE LET component == expect(w.pos, "StrLit") IN
                   IF component.tag = "err" THEN component
                   ELSE [tag |-> "ok",
                         value |-> [kind |-> "Implement", docs |-> d,
                                    span |-> Span(k.span.start, component.span.end),
                                    interface |-> parse_str(interface.span),
                                    component |-> parse_str(component.span)],
                         pos |-> component.pos]

(***************************************************************************)
(* tokens.clone().next(): the clone reads a token, tokens itself stays.    *)
(***************************************************************************)
\* a peek that reads the next raw token, whitespace and comments included
PeekNextRaw(pos) == [found |-> next_raw(pos), pos |-> pos]

PeekNextConsuming(pos) == [found |-> next(pos), pos |-> next(pos).pos]

PeekNext(pos) == [found |-> next(pos), pos |-> pos]

(***************************************************************************)
(* The inputs: up to MaxUnits units, a unit being some leading comments    *)
(* followed by a statement, a part of one, or a malformed one.             *)
(***************************************************************************)
MaxUnits == 2

Sp == <<" ">>

Nl == <<"\n">>

IdFoo == <<"f", "o", "o">>

StrC == <<Quote, "c", Quote>>

StrEsc == <<Quote, "a", Backslash, Quote, "b", Quote>>

CommentC == <<"/", "/", "c">>

CommentD == <<"/", "/", " ", "d">>

Trivia == { <<>>, CommentC \o Nl \o Nl \o CommentD \o Nl }

Stmts ==
    { <<>>,
      KwExtend \o Sp \o IdFoo \o Nl,
      KwExtend \o Sp \o StrEsc \o Nl,
      KwProvide \o Sp \o IdFoo \o Nl,
      KwProvide \o Sp \o StrEsc \o Nl,
      KwRequire \o Sp \o IdFoo \o Nl,
      KwRequire \o Sp \o StrEsc \o Nl,
      KwImplement \o Sp \o StrEsc \o Sp \o KwWith \o Sp \o StrC \o Nl,
      KwImplement \o Sp \o IdFoo \o Sp \o KwWith \o Sp \o StrC \o Nl,
      KwImplement \o Sp \o StrC \o Sp \o KwWith \o Sp \o IdFoo \o Nl,
      KwImplement \o Sp \o StrC \o Sp \o KwWith \o Nl,
      KwImplement \o Sp \o StrC \o Nl,
      KwImplement \o Nl,
      KwExtend \o Nl,
      KwProvide \o Nl,
      KwRequire \o Nl,
      IdFoo \o Nl,
      StrC \o Nl,
      KwWith \o Nl,
      <<"#">> \o Nl,
      <<Quote, "c">>,
      <<Quote, Backslash, "q", Quote>> \o Nl }

Units == { t \o s : t \in Trivia, s \in Stmts }

\* the empty unit is a unit, so inputs of fewer units are included
RECURSIVE Concat(_, _)
Concat(f, n) == IF n = 0 THEN <<>> ELSE Concat(f, n - 1) \o f[n]

Inputs == { Concat(f, MaxUnits) : f \in [1..MaxUnits -> Units] }

(***************************************************************************)
(* Ast::parse, one step per statement of the driver loop.  pc is the       *)
(* position in the loop:                                                   *)
(*   "guard"     line 19, the loop condition                               *)
(*   "docs"      line 20, Docs::parse                                      *)
(*   "item"      line 61, the dispatch peek of Item::parse                 *)
(*   "dispatch"  lines 62-70, the match arm chosen                         *)
(*   "done"      Ast::parse has returned                                   *)
(* entry and mark are the committed cursor when Docs::parse was entered    *)
(* and when it returned, in the current iteration.                         *)
(***************************************************************************)
NoToken == [tag |-> "none"]

Running == [tag |-> "none"]

Ok(its) == [tag |-> "ok", items |-> its]

Err(e) == [tag |-> "err", error |-> e]

Init ==
    /\ input \in Inputs
    /\ lexer = 0
    /\ pc = "guard"
    /\ docs = <<>>
    /\ peeked = NoToken
    /\ items = <<>>
    /\ result = Running
    /\ entry = 0
    /\ mark = 0

\* a loop that runs while any input is left, whitespace and comments included
LoopGuardAnyInput ==
    /\ pc = "guard"
    /\ LET p == PeekNext(lexer) IN
       /\ lexer' = p.pos
       /\ IF p.found.tag = "err"
          THEN pc' = "done" /\ result' = Err(p.found.error)
          ELSE IF lexer >= InputLen
          THEN pc' = "done" /\ result' = Ok(items)
          ELSE pc' = "docs" /\ result' = result
    /\ UNCHANGED <<input, docs, peeked, items, entry, mark>>

\* while lexer.clone().next()?.is_some()
LoopGuard ==
    /\ pc = "guard"
    /\ LET p == PeekNext(lexer) IN
       /\ lexer' = p.pos
       /\ IF p.found.tag = "err"
          THEN pc' = "done" /\ result' = Err(p.found.error)
          ELSE IF p.found.tag = "eof"
          THEN pc' = "done" /\ result' = Ok(items)
          ELSE pc' = "docs" /\ result' = result
    /\ UNCHANGED <<input, docs, peeked, items, entry, mark>>

\* let docs = Docs::parse(&mut lexer)?
DocsStep ==
    /\ pc = "docs"
    /\ LET r == DocsParse(lexer) IN
       /\ lexer' = r.pos
       /\ entry' = lexer
       /\ mark' = r.pos
       /\ IF r.tag = "err"
          THEN pc' = "done" /\ result' = Err(r.error) /\ docs' = docs
          ELSE pc' = "item" /\ result' = result /\ docs' = r.docs
    /\ UNCHANGED <<input, peeked, items>>

\* match tokens.clone().next()?
ItemPeek ==
    /\ pc = "item"
    /\ LET p == PeekNext(lexer) IN
       /\ lexer' = p.pos
       /\ peeked' = p.found
       /\ IF p.found.tag = "err"
          THEN pc' = "done" /\ result' = Err(p.found.error)
          ELSE pc' = "dispatch" /\ result' = result
    /\ UNCHANGED <<input, docs, items, entry, mark>>

\* items.push(item)
PushFront(its, item) == <<item>> \o its

Push(its, item) == Append(its, item)

\* a match arm whose declaration parser ran on a clone of the tokenizer
FinishOnClone(r) ==
    /\ lexer' = lexer
    /\ docs' = <<>>
    /\ IF r.tag = "err"
       THEN pc' = "done" /\ result' = Err(r.error) /\ items' = items
       ELSE pc' = "guard" /\ result' = result /\ items' = Push(items, r.value)
    /\ UNCHANGED <<input, peeked, entry, mark>>

\* a match arm that skips a failed declaration and goes on
FinishRecover(r) ==
    /\ lexer' = r.pos
    /\ docs' = <<>>
    /\ pc' = "guard"
    /\ result' = result
    /\ items' = IF r.tag = "err" THEN items ELSE Push(items, r.value)
    /\ UNCHANGED <<input, peeked, entry, mark>>

\* the end of a match arm: items.push(...) or the error returned by ?
Finish(r) ==
    /\ lexer' = r.pos
    /\ docs' = <<>>
    /\ IF r.tag = "err"
       THEN pc' = "done" /\ result' = Err(r.error) /\ items' = items
       ELSE pc' = "guard" /\ result' = result /\ items' = Push(items, r.value)
    /\ UNCHANGED <<input, peeked, entry, mark>>

\* an Extend arm that hands the collected docs to the item, as the other arms do
ItemExtendDocumented ==
    /\ pc = "dispatch"
    /\ peeked.tag = "tok" /\ peeked.token = "Extend"
    /\ LET r == ExtendParse(lexer) IN
       Finish(IF r.tag = "ok"
              THEN [r EXCEPT !.value = [kind |-> "Extend", docs |-> docs,
                                        span |-> r.value.span,
                                        profile |-> r.value.profile]]
              ELSE r)

ItemExtend ==
    /\ pc = "dispatch"
    /\ peeked.tag = "tok" /\ peeked.token = "Extend"
    /\ Finish(ExtendParse(lexer))

ItemProvide ==
    /\ pc = "dispatch"
    /\ peeked.tag = "tok" /\ peeked.token = "Provide"
    /\ Finish(ProvideParse(lexer, docs))

ItemRequire ==
    /\ pc = "dispatch"
    /\ peeked.tag = "tok" /\ peeked.token = "Require"
    /\ Finish(RequireParse(lexer, docs))

ItemImplement ==
    /\ pc = "dispatch"
    /\ peeked.tag = "tok" /\ peeked.token = "Implement"
    /\ Finish(ImplementParse(lexer, docs))

\* an error that leaves implement out of the alternatives
ItemErrorThreeKeywords(other) ==
    format_expected_error("'extend', 'provide', or 'require'", other)

\* the fallback arm of Item::parse (the source writes the keywords in backquotes)
ItemError(other) ==
    format_expected_error("'extend', 'provide', 'require', or 'implement'", other)

ItemOther ==
    /\ pc = "dispatch"
    /\ ~(peeked.tag = "tok" /\ peeked.token \in {"Extend", "Provide", "Require", "Implement"})
    /\ pc' = "done"
    /\ result' = Err(ItemError(peeked))
    /\ UNCHANGED <<input, lexer, docs, peeked, items, entry, mark>>

Next ==
    \/ LoopGuard
    \/ DocsStep
    \/ ItemPeek
    \/ ItemExtend
    \/ ItemProvide
    \/ ItemRequire
    \/ ItemImplement
    \/ ItemOther

Spec == Init /\ [][Next]_vars

(***************************************************************************)
(* The tokens of the input, as repeated next_raw from offset 0 yields      *)
(* them, up to the end of input or the first lexical error.                *)
(***************************************************************************)
RECURSIVE RawTokensFrom(_)
RawTokensFrom(pos) ==
    LET r == next_raw(pos) IN
    IF r.tag = "tok"
    THEN <<[span |-> r.span, token |-> r.token]>> \o RawTokensFrom(r.pos)
    ELSE <<>>

RawTokens == RawTokensFrom(0)

IsTrivia(t) == t.token \in {"Whitespace", "Comment"}

IsSignificant(t) == ~IsTrivia(t)

IsComment(t) == t.token = "Comment"

IsDeclKeyword(t) == t.token \in {"Extend", "Provide", "Require", "Implement"}

SignificantTokens == SelectSeq(RawTokens, IsSignificant)

DeclKeywords == SelectSeq(RawTokens, IsDeclKeyword)

\* the raw tokens that lie within the offsets a..b
TokensBetween(a, b) ==
    LET In(t) == a <= t.span.start /\ t.span.end <= b IN SelectSeq(RawTokens, In)

TextsOf(ts) == [i \in 1..Len(ts) |-> SubSeq(input, ts[i].span.start + 1, ts[i].span.end)]

CommentTextsBetween(a, b) == TextsOf(SelectSeq(TokensBetween(a, b), IsComment))

PrevEnd(its, i) == IF i = 1 THEN 0 ELSE its[i - 1].span.end

Succeeded == pc = "done" /\ result.tag = "ok"

Failed == pc = "done" /\ result.tag = "err"

(***************************************************************************)
(* C1: after a successful parse, the docs of every Provide, Require or     *)
(* Implement item are the texts of all the comment tokens between the end  *)
(* of the previous declaration (the start of input for the first) and the  *)
(* item's keyword, in source order, and only whitespace and comments lie   *)
(* in that stretch.                                                        *)
(***************************************************************************)
DocsAreThePrecedingComments ==
    Succeeded =>
        \A i \in 1..Len(result.items) :
            LET it == result.items[i]
                between == TokensBetween(PrevEnd(result.items, i), it.span.start)
            IN  /\ \A k \in 1..Len(between) : IsTrivia(between[k])
                /\ it.kind /= "Extend" =>
                     it.docs = CommentTextsBetween(PrevEnd(result.items, i), it.span.start)

\* a documented declaration that follows a documented declaration, the
\* comments of its run separated by a blank line
DocsWitness ==
    /\ Succeeded
    /\ Len(result.items) = 2
    /\ result.items[2].kind = "Implement"
    /\ Len(result.items[2].docs) = 2
    /\ result.items[2].docs[1] /= result.items[2].docs[2]
    /\ Len(CommentTextsBetween(0, result.items[1].span.start)) = 2

(***************************************************************************)
(* C2: after a successful parse there is one item per declaration keyword  *)
(* of the input, in the order of the keywords: the i-th item starts at the *)
(* i-th keyword and has its variant, and consecutive items do not overlap. *)
(***************************************************************************)
ItemsInSourceOrder ==
    Succeeded =>
        LET keywords == DeclKeywords IN
        /\ Len(result.items) = Len(keywords)
        /\ \A i \in 1..Len(result.items) :
              /\ result.items[i].span.start = keywords[i].span.start
              /\ result.items[i].kind = keywords[i].token
        /\ \A i \in 1..(Len(result.items) - 1) :
              result.items[i].span.end <= result.items[i + 1].span.start

ItemsOrderWitness ==
    /\ Succeeded
    /\ Len(result.items) = 2
    /\ result.items[1].kind = "Require"
    /\ result.items[2].kind = "Extend"

(***************************************************************************)
(* C3: the span of every parsed declaration starts at the start of its     *)
(* keyword token and ends at the end of the last token it consumed: the    *)
(* operand of Extend, Provide and Require, the second string literal of    *)
(* Implement.  So start < end, the cursor after the declaration is its     *)
(* span.end, and the comments and whitespace before it are outside.        *)
(***************************************************************************)
\* the n-th significant token after offset o (n >= 1)
RECURSIVE NthAfter(_, _)
NthAfter(o, n) ==
    LET r == next(o) IN IF n = 1 \/ r.tag /= "tok" THEN r ELSE NthAfter(r.pos, n - 1)

LastTokenOf(it) ==
    LET k == next_raw(it.span.start) IN
    IF it.kind = "Implement" THEN NthAfter(k.pos, 3) ELSE NthAfter(k.pos, 1)

SpanIsKeywordToLastToken ==
    /\ \A i \in 1..Len(items) :
          LET it == items[i]
              k == next_raw(it.span.start)
              last == LastTokenOf(it)
          IN  /\ k.tag = "tok" /\ k.token = it.kind /\ k.span.start = it.span.start
              /\ last.tag = "tok" /\ it.span.end = last.span.end
              /\ last.token \in (IF it.kind = "Implement" THEN {"StrLit"} ELSE {"Id", "StrLit"})
              /\ it.span.start < it.span.end
    /\ (pc = "guard" /\ items /= <<>>) =>
          /\ items[Len(items)].span.end = lexer
          /\ items[Len(items)].span.start = mark
          /\ entry <= mark

\* an Implement and an Extend parsed, the Implement preceded by comments
SpanWitness ==
    /\ pc = "guard"
    /\ Len(items) = 2
    /\ items[1].kind = "Implement"
    /\ items[1].span.start > 0
    /\ items[2].kind = "Extend"

(***************************************************************************)
(* C4: Implement::parse fails whenever the token in its first or in its    *)
(* second operand position is a bare identifier, while Extend::parse,      *)
(* Provide::parse and Require::parse succeed on an operand that is a bare  *)
(* identifier or a string literal.                                         *)
(***************************************************************************)
IsTok(r, kinds) == r.tag = "tok" /\ r.token \in kinds

ImplementRejectsIdentifiers ==
    [][ (pc = "dispatch" /\ next(lexer).tag = "tok") =>
          LET kw == next(lexer).token
              op1 == NthAfter(lexer, 2)
              op2 == NthAfter(lexer, 4)
          IN  /\ (kw = "Implement" /\ (IsTok(op1, {"Id"}) \/ IsTok(op2, {"Id"}))) =>
                    (pc' = "done" /\ result'.tag = "err" /\ items' = items)
              /\ (kw \in {"Extend", "Provide", "Require"} /\ IsTok(op1, {"Id", "StrLit"})) =>
                    /\ pc' = "guard"
                    /\ result' = Running
                    /\ Len(items') = Len(items) + 1
                    /\ items'[Len(items')].kind = kw
      ]_vars

\* Implement has failed on an identifier that follows the keyword with
ImplementRejectsWitness ==
    /\ Failed
    /\ result.error.expected = "a string literal"
    /\ result.error.found = "Id"
    /\ \E i \in 1..(Len(SignificantTokens) - 1) :
          /\ SignificantTokens[i].token = "With"
          /\ SignificantTokens[i + 1].span = result.error.span

(***************************************************************************)
(* C5: when the first token after the doc comments is none of the four     *)
(* declaration keywords, Ast::parse fails with an error that expects       *)
(* extend, provide, require or implement and carries that token's span.    *)
(***************************************************************************)
AllFourKeywords == "'extend', 'provide', 'require', or 'implement'"

UnknownLeadingTokenError ==
    [][ (pc = "dispatch" /\ next(lexer).tag = "tok" /\ ~IsDeclKeyword(next(lexer))) =>
          /\ pc' = "done"
          /\ result'.tag = "err"
          /\ result'.error.kind = "expected"
          /\ result'.error.expected = AllFourKeywords
          /\ result'.error.span = next(lexer).span
          /\ result'.error.found = next(lexer).token
      ]_vars

\* the keyword with at the top level, after a declaration and its comments
UnknownLeadingTokenWitness ==
    /\ Failed
    /\ result.error.expected = AllFourKeywords
    /\ result.error.found = "With"
    /\ Len(items) = 1
    /\ mark > entry

(***************************************************************************)
(* C6: Ast::parse is fail-fast.  It returns either the complete item       *)
(* sequence or one error, the first of the input; nothing runs after it    *)
(* returned, and no token beyond the one in error is consumed.             *)
(***************************************************************************)
\* where repeated next_raw from offset pos ends: end of input or an error
RECURSIVE RawEnd(_)
RawEnd(pos) ==
    LET r == next_raw(pos) IN IF r.tag = "tok" THEN RawEnd(r.pos) ELSE r

Covered(t, its) ==
    \E i \in 1..Len(its) : its[i].span.start <= t.span.start /\ t.span.end <= its[i].span.end

FailFastOutcome ==
    /\ (result = Running) <=> (pc /= "done")
    /\ Succeeded =>
          LET significant == SignificantTokens IN
          /\ result.items = items
          /\ RawEnd(0).tag = "eof"
          /\ \A k \in 1..Len(significant) : Covered(significant[k], items)
    /\ Failed =>
          LET last == RawEnd(0) IN
          /\ \A i \in 1..Len(items) : items[i].span.end <= result.error.span.start
          /\ lexer <= result.error.span.end
          /\ result.error.kind = "lex" => last.error = result.error
          /\ (result.error.kind = "expected" /\ last.tag = "err") =>
                result.error.span.start <= last.error.span.start

FailFast == []FailFastOutcome /\ [][pc /= "done"]_vars

\* a second declaration failed after a first one was parsed
FailFastWitness ==
    /\ Failed
    /\ Len(items) = 1
    /\ result.error.kind = "expected"
    /\ result.error.found = "eof"
    /\ lexer > items[1].span.end

(***************************************************************************)
(* C7, as claimed: Docs::parse leaves the committed cursor at the end of   *)
(* the last comment it consumed, or where it was if it consumed none.      *)
(***************************************************************************)
\* the stretch Docs::parse scans: from its entry to the token that stops it
ScanStop == LET r == next(entry) IN IF r.tag = "tok" THEN r.span.start ELSE InputLen

ScannedTrivia == TokensBetween(entry, ScanStop)

ScannedComments == SelectSeq(ScannedTrivia, IsComment)

EndOfLast(ts, default) == IF ts = <<>> THEN default ELSE ts[Len(ts)].span.end

DocsCursorAtLastComment ==
    pc = "item" => lexer = EndOfLast(ScannedComments, entry)

(***************************************************************************)
(* C7, amended: Docs::parse leaves the committed cursor at the end of the  *)
(* last whitespace or comment token it consumed, or where it was if it     *)
(* consumed neither; the whitespace after the last comment is committed.   *)
(***************************************************************************)
DocsCursorAtLastTrivia ==
    pc = "item" =>
        LET scanned == ScannedTrivia IN
        /\ lexer = EndOfLast(scanned, entry)
        /\ \A k \in 1..Len(scanned) : IsTrivia(scanned[k])
        /\ docs = TextsOf(SelectSeq(scanned, IsComment))

\* comments were collected and the cursor stands after the whitespace that
\* follows the last of them
DocsCursorWitness ==
    /\ pc = "item"
    /\ Len(docs) = 2
    /\ entry > 0
    /\ lexer > EndOfLast(ScannedComments, entry)
    /\ lexer = ScanStop

(***************************************************************************)
(* C8: Docs::parse does not consume the token that ends its scan: the      *)
(* committed cursor is at or before the start of the first significant     *)
(* token after the entry position, and that token is the one the dispatch  *)
(* reads next.                                                             *)
(***************************************************************************)
DocsLeavesStopToken ==
    pc \in {"item", "dispatch"} =>
        LET stop == next(entry) IN
        /\ stop.tag = "tok"
        /\ lexer <= stop.span.start
        /\ next(lexer) = stop
        /\ pc = "dispatch" => peeked = stop

DocsLeavesStopWitness ==
    /\ pc = "dispatch"
    /\ Len(docs) = 2
    /\ lexer > entry
    /\ peeked.token = "Require"

(***************************************************************************)
(* C9: the loop-guard peek and the dispatch peek leave the committed       *)
(* cursor where it was; the keyword seen by the dispatch is the token the  *)
(* declaration parser takes as its keyword; when the dispatch fails the    *)
(* cursor is where Docs::parse left it.                                    *)
(***************************************************************************)
LookaheadNonDestructive ==
    [][ /\ pc \in {"guard", "item"} => lexer' = lexer
        /\ pc = "dispatch" => lexer = mark
        /\ (pc = "dispatch" /\ pc' = "guard") =>
              /\ items'[Len(items')].span.start = peeked.span.start
              /\ items'[Len(items')].kind = peeked.token
              /\ peeked = next(mark)
        /\ (pc = "dispatch" /\ ~IsTok(peeked, {"Extend", "Provide", "Require", "Implement"})) =>
              lexer' = mark
      ]_vars

LookaheadWitness ==
    /\ pc = "guard"
    /\ Len(items) = 2
    /\ items[2].kind = "Provide"
    /\ items[2].span.start = peeked.span.start
    /\ mark > entry

(***************************************************************************)
(* C10: Id::parse, as the operand parser of Extend, Provide and Require,   *)
(* consumes one significant token.  A bare identifier gives the verbatim   *)
(* slice as the name, a string literal its decoded text, both with the     *)
(* token's span; any other token, or the end of input, gives an error that *)
(* expects an identifier or string at the span of the token found, or at   *)
(* the end-of-input span.                                                  *)
(***************************************************************************)
OperandOf(it) == IF it.kind = "Extend" THEN it.profile ELSE it.interface

IdParseContract ==
    [][ (pc = "dispatch" /\ IsTok(next(lexer), {"Extend", "Provide", "Require"})) =>
          LET t == next(next(lexer).pos)
              slice == SubSeq(input, t.span.start + 1, t.span.end)
              parsed == OperandOf(items'[Len(items')])
          IN  /\ IsTok(t, {"Id"}) =>
                    /\ pc' = "guard"
                    /\ parsed = [name |-> slice, span |-> t.span]
                    /\ lexer' = t.span.end
              /\ IsTok(t, {"StrLit"}) =>
                    /\ pc' = "guard"
                    /\ parsed = [name |-> parse_str(t.span), span |-> t.span]
                    /\ Len(parsed.name) <= Len(slice) - 2
                    /\ lexer' = t.span.end
              /\ (t.tag = "tok" /\ t.token \notin {"Id", "StrLit"}) =>
                    /\ pc' = "done"
                    /\ result' = Err([kind |-> "expected", span |-> t.span,
                                      expected |-> "an identifier or string",
                                      found |-> t.token])
              /\ t.tag = "eof" =>
                    /\ pc' = "done"
                    /\ result' = Err([kind |-> "expected", span |-> Span(InputLen, InputLen),
                                      expected |-> "an identifier or string",
                                      found |-> "eof"])
      ]_vars

\* a keyword in the operand position of a declaration
IdParseWitness ==
    /\ Failed
    /\ result.error.expected = "an identifier or string"
    /\ result.error.found = "Implement"
    /\ result.error.span.end - result.error.span.start = Len(KwImplement)

(***************************************************************************)
(* C11: the empty input, and every input of whitespace and comments only,  *)
(* parses to the empty item sequence without error; whitespace and         *)
(* comments after the last declaration add neither an item nor an error.   *)
(***************************************************************************)
\* nothing but whitespace and comments from offset o to the end of input
OnlyTriviaFrom(o) ==
    LET rest == RawTokensFrom(o) IN
    /\ RawEnd(o).tag = "eof"
    /\ \A k \in 1..Len(rest) : IsTrivia(rest[k])

TriviaIsNoDeclaration ==
    [][ /\ (pc = "guard" /\ lexer = 0 /\ OnlyTriviaFrom(0)) =>
              (pc' = "done" /\ result' = Ok(<<>>))
        /\ (pc = "guard" /\ OnlyTriviaFrom(lexer)) =>
              (pc' = "done" /\ result' = Ok(items) /\ items' = items)
      ]_vars

\* an input of comments and whitespace, parsed to no item
TriviaOnlyWitness ==
    /\ Succeeded
    /\ result.items = <<>>
    /\ Len(SelectSeq(RawTokens, IsComment)) = 4
    /\ lexer = 0

(***************************************************************************)
(* C12: Implement::parse accepts the tokens implement, StrLit, with,       *)
(* StrLit, whitespace and comments between them ignored, and nothing else: *)
(* it fails at the first position that deviates, with an error for the     *)
(* token found there (or for the end of input) that expects what belongs   *)
(* there, and it reads no token after that position.                       *)
(***************************************************************************)
ImplementOperands == <<"StrLit", "With", "StrLit">>

ImplementExpects == <<"a string literal", "keyword 'with'", "a string literal">>

\* the token in position j after the keyword, the keyword at offset o
ImplementToken(o, j) == NthAfter(o, j + 1)

Deviates(o, j) == ~IsTok(ImplementToken(o, j), {ImplementOperands[j]})

ImplementAtFirstDeviation ==
    [][ (pc = "dispatch" /\ IsTok(next(lexer), {"Implement"})) =>
          IF \A j \in 1..3 : ~Deviates(lexer, j)
          THEN /\ pc' = "guard"
               /\ result' = Running
               /\ items' = Append(items,
                                  [kind |-> "Implement", docs |-> docs,
                                   span |-> Span(next(lexer).span.start,
                                                 ImplementToken(lexer, 3).span.end),
                                   interface |-> parse_str(ImplementToken(lexer, 1).span),
                                   component |-> parse_str(ImplementToken(lexer, 3).span)])
               /\ lexer' = ImplementToken(lexer, 3).span.end
          ELSE LET first == CHOOSE j \in 1..3 :
                               Deviates(lexer, j) /\ \A i \in 1..(j - 1) : ~Deviates(lexer, i)
                   found == ImplementToken(lexer, first)
               IN  /\ pc' = "done"
                   /\ items' = items
                   /\ found.tag = "tok" =>
                         /\ result' = Err([kind |-> "expected", span |-> found.span,
                                           expected |-> ImplementExpects[first],
                                           found |-> found.token])
                         /\ lexer' = found.span.end
                   /\ found.tag = "eof" =>
                         /\ result' = Err([kind |-> "expected",
                                           span |-> Span(InputLen, InputLen),
                                           expected |-> ImplementExpects[first],
                                           found |-> "eof"])
                         /\ lexer' <= InputLen
                   /\ found.tag = "err" => result' = Err(found.error)
      ]_vars

\* implement foo with "c" has failed at foo, and a token that does not lex
\* follows the statement
ImplementDeviationWitness ==
    /\ Failed
    /\ result.error.expected = "a string literal"
    /\ result.error.found = "Id"
    /\ \E i \in 1..(Len(SignificantTokens) - 2) :
          /\ SignificantTokens[i].token = "Implement"
          /\ SignificantTokens[i + 1].span = result.error.span
          /\ SignificantTokens[i + 2].token = "With"
    /\ RawEnd(0).tag = "err"
    /\ lexer = result.error.span.end

(***************************************************************************)
(* C13: the comments before an extend are collected by the driver and      *)
(* attached to nothing: the Extend item has no docs, and the docs of the   *)
(* declaration after it are the comments after the extend's operand only.  *)
(***************************************************************************)
ExtendFields == {"kind", "span", "profile"}

ExtendDropsItsComments ==
    /\ (pc = "dispatch" /\ IsTok(peeked, {"Extend"})) =>
          /\ docs = CommentTextsBetween(entry, peeked.span.start)
          /\ lexer = peeked.span.start
    /\ \A i \in 1..Len(items) :
          items[i].kind = "Extend" =>
             /\ DOMAIN items[i] = ExtendFields
             /\ (i < Len(items) /\ items[i + 1].kind /= "Extend") =>
                   /\ items[i + 1].docs =
                         CommentTextsBetween(items[i].span.end, items[i + 1].span.start)
                   /\ Len(items[i + 1].docs) <=
                         Len(CommentTextsBetween(PrevEnd(items, i), items[i + 1].span.start))
                         - Len(CommentTextsBetween(PrevEnd(items, i), items[i].span.start))

\* an extend with two comments before it, then a require with none
ExtendDropsWitness ==
    /\ Succeeded
    /\ Len(items) = 2
    /\ items[1].kind = "Extend"
    /\ Len(CommentTextsBetween(0, items[1].span.start)) = 2
    /\ items[2].kind = "Require"
    /\ items[2].docs = <<>>

(***************************************************************************)
(* C14: Ast::parse terminates.  The committed cursor never moves back;     *)
(* Docs::parse moves it over whole raw tokens; an iteration of the driver  *)
(* loop that does not return an error moves it past at least one           *)
(* significant token; so every step that does not return lowers a measure  *)
(* bounded by the input, and there are no more iterations than tokens.     *)
(***************************************************************************)
Rank(p) ==
    CASE p = "guard" -> 3
      [] p = "docs" -> 2
      [] p = "item" -> 1
      [] OTHER -> 0

\* what is left to do: the input after the cursor, then the steps of the iteration
Measure(cursor, p) == 4 * (InputLen - cursor) + Rank(p)

\* the offsets at which repeated next_raw from offset o stops between tokens
RECURSIVE BoundariesFrom(_)
BoundariesFrom(o) ==
    LET r == next_raw(o) IN
    IF r.tag = "tok" THEN {o} \cup BoundariesFrom(r.pos) ELSE {o}

SignificantUpTo(o) ==
    LET Before(t) == IsSignificant(t) /\ t.span.end <= o IN SelectSeq(RawTokens, Before)

ParseProgress ==
    /\ 0 <= lexer /\ lexer <= InputLen
    /\ Len(items) <= Len(SignificantUpTo(lexer))
    /\ pc = "docs" => Len(items) < Len(SignificantTokens)

ParseTerminates ==
    /\ []ParseProgress
    /\ [][ /\ lexer' >= lexer
           /\ pc' /= "done" => Measure(lexer', pc') < Measure(lexer, pc)
           /\ pc = "docs" => lexer' \in BoundariesFrom(lexer)
           /\ (pc = "dispatch" /\ pc' = "guard") =>
                 /\ next(entry).tag = "tok"
                 /\ lexer' >= next(entry).span.end
                 /\ Len(items') = Len(items) + 1
         ]_vars

\* two iterations of the loop over six significant tokens, then the return
ParseTerminatesWitness ==
    /\ Succeeded
    /\ Len(items) = 2
    /\ Len(SignificantTokens) = 6
    /\ lexer < InputLen

(***************************************************************************)
(* C15: within Ast::parse, Item::parse is never entered at the end of      *)
(* input: its dispatch peek always yields a token, and the error that      *)
(* expects extend, provide, require or implement never has the             *)
(* end-of-input span.                                                      *)
(***************************************************************************)
DispatchNeverAtEof ==
    /\ pc = "item" => next(lexer).tag = "tok"
    /\ pc = "dispatch" =>
          /\ peeked.tag = "tok"
          /\ peeked.span.start < InputLen
    /\ (Failed /\ result.error.expected = AllFourKeywords) =>
          /\ result.error.found /= "eof"
          /\ result.error.span /= Span(InputLen, InputLen)
          /\ result.error.span.start < result.error.span.end

\* the dispatch has failed on the last token of the input, comments before it
DispatchNeverAtEofWitness ==
    /\ Failed
    /\ result.error.expected = AllFourKeywords
    /\ result.error.found = "StrLit"
    /\ next(result.error.span.end).tag = "eof"
    /\ Len(docs) = 2

=============================================================================
